---- MODULE Spec2Model ----
(***************************************************************************)
(* A model of redis-request-broker: the request/response protocol between *)
(* Client (lib/client.js) and Worker (lib/worker.js) over a Redis list    *)
(* and Redis pub/sub, with the client's running-requests tracker           *)
(* (lib/runningRequests.js), the key builder (lib/keys.js) and the codec   *)
(* (lib/messages.js), and the broadcast of messages from Publisher        *)
(* (lib/publisher.js) to Subscriber (lib/subscriber.js).                   *)
(*                                                                         *)
(* Modelling of the backend.  A command sent on a connection takes effect  *)
(* at the server and resumes the awaiting code in one step (its "reply"). *)
(* Replies on one connection arrive in the order in which the commands     *)
(* were sent (Redis pipelining), so every connection carries a FIFO of     *)
(* commands in flight; connections are independent of each other.          *)
(* A published message is put into the inbox of every connection that is   *)
(* subscribed to the channel; the 'message' event is a later step.         *)
(*                                                                         *)
(* Modelling of JavaScript.  The synchronous part of a function up to its  *)
(* first await is one step, and so is every continuation after an await.   *)
(* Timers of equal delay fire in the order in which they were set.         *)
(***************************************************************************)
EXTENDS Integers, Sequences, FiniteSets, TLC

\* ------------------------------------------------------------------ bounds

NumWorkers == 2
MaxRequests == 2
NumPublishers == 2
NumSubscribers == 3
MaxPublishes == 2

Workers == 1..NumWorkers
Reqs == 1..MaxRequests
PubIds == 1..NumPublishers
SubIds == 1..NumSubscribers

\* The queue name shared by the client and the workers.
QueueName == "test"

\* Payloads of requests: "0" stands for the number 0 (falsy), "data" for a
\* non-empty string (truthy).
Data == {"0", "data"}

\* The values of defaults.redis.prefix that the model draws from.
Prefixes == {"", "rrb:"}

\* ------------------------------------------------------------ JavaScript

Undefined == "undefined"

Falsy == {"0", "", "null", "undefined", "false", "NaN"}

Truthy(v) == v \notin Falsy

\* Error instances of the value universe and their plain form.
ErrorInstances == {"Error(data)"}

serializeError(e) == IF e = "Error(data)" THEN "{name:Error,message:data}" ELSE e

RECURSIVE SeqFilterOut(_, _)
SeqFilterOut(s, x) ==
    IF s = <<>> THEN <<>>
    ELSE IF Head(s) = x THEN SeqFilterOut(Tail(s), x)
         ELSE <<Head(s)>> \o SeqFilterOut(Tail(s), x)

\* uniqid(): one fresh id per call.
uniqid(r) == "id" \o ToString(r)

\* ------------------------------------------------------------------ keys

requestChannel(channelName, prefix) ==
    (IF ~Truthy(prefix) THEN "" ELSE prefix) \o "n:" \o channelName

\* A response channel that is named after the queue, not after the request.
responseChannelOfQueue(requestId, prefix) ==
    (IF ~Truthy(prefix) THEN "" ELSE prefix) \o "r:" \o QueueName

responseChannel(requestId, prefix) ==
    (IF ~Truthy(prefix) THEN "" ELSE prefix) \o "r:" \o requestId

requestQueue(queueName) == "q:" \o queueName

\* A pub/sub channel that is the same for every channel name.
pubSubChannelShared(channelName, prefix) ==
    (IF ~Truthy(prefix) THEN "" ELSE prefix) \o "c:"

pubSubChannel(channelName, prefix) ==
    (IF ~Truthy(prefix) THEN "" ELSE prefix) \o "c:" \o channelName

\* -------------------------------------------------------------- messages
\* A JSON text is modelled by the object it parses to; a key whose value is
\* undefined is dropped by JSON.stringify and reads as undefined again.
\* Malformed stands for a text that JSON.parse rejects.

Malformed == [malformed |-> TRUE]

Field(text, key) == IF key \in DOMAIN text THEN text[key] ELSE Undefined

\* What JSON.parse reads for a property that JSON.stringify wrote for value v:
\* NaN is written as null, an Error instance (which has no enumerable
\* property) as {}, and a property that is undefined is not written.
jsonValue(v) ==
    IF v = "NaN" THEN "null" ELSE IF v \in ErrorInstances THEN "{}" ELSE v

\* A response text without the ok property.
composeResponseBare(id, response) == [id |-> jsonValue(id), response |-> jsonValue(response)]

composeRequest(id, data) == [id |-> jsonValue(id), data |-> jsonValue(data)]

composePubSubMessage(id, message) == [id |-> jsonValue(id), message |-> jsonValue(message)]

composeResponse(id, response) ==
    [id |-> jsonValue(id), response |-> jsonValue(response), ok |-> "true"]

composeError(id, error) ==
    [id |-> jsonValue(id),
     error |-> jsonValue(IF error \in ErrorInstances THEN serializeError(error) ELSE error),
     ok |-> "false"]

parseRequest(message) == [id |-> Field(message, "id"), data |-> Field(message, "data")]

parsePubSubMessage(m) == [id |-> Field(m, "id"), message |-> Field(m, "message")]

parseResponse(message) ==
    IF ~Truthy(Field(message, "ok"))
    THEN [id |-> Field(message, "id"), error |-> Field(message, "error"), ok |-> FALSE]
    ELSE [id |-> Field(message, "id"), response |-> Field(message, "response"), ok |-> TRUE]

\* ----------------------------------------------------------------- state

VARIABLES
    prefix,     \* defaults.redis.prefix, read by every participant at construction
    queue,      \* the Redis list of the request queue
    subs,       \* the Redis subscriptions: pairs <<connection, channel>>
    wk,         \* the workers
    invoked,    \* history: the handler invocations, in order, as [w, id, data]
    published,  \* history: the responses that workers published, with the outcome
                \* of the handler, as [w, id, threw, value, msg, received,
                \* pending], pending telling whether the call had not ended
    rq,         \* the request calls of the client
    cl,         \* the client
    tracker,    \* the client's running-requests tracker
    timers,     \* the timers that are set, in the order in which they fire
    pb,         \* the publishers
    sb,         \* the subscribers
    calls,      \* history: the publish() calls of the publishers, in order
    codec,      \* a use of the codec on its own: the inputs, the text, the result
    opts        \* the defaults of the process and what was made from them

vars == <<prefix, queue, subs, wk, invoked, published, rq, cl, tracker, timers,
          pb, sb, calls, codec, opts>>

pubsubVars == <<pb, sb, calls>>

workerVars == <<queue, subs, wk, invoked, published>>
clientVars == <<rq, cl, tracker, timers>>

\* Connections.
WConn(w) == <<"worker", w>>
RConn(r) == <<"request", r>>

Subscribers(channel) == {s[1] : s \in {x \in subs : x[2] = channel}}

\* ---------------------------------------------------------------- Worker
\* A worker w is the record wk[w]:
\*   started      listen() has been called
\*   isListening, isWorking, stopPromise   the fields of the same names
\*   publisher, subscriber   whether the field holds a connection (or undefined)
\*   pubConn, subConn        the state of that connection
\*   pubPending, subPending  the commands in flight on it, oldest first
\*   inbox        the notifications received and not yet emitted as 'message';
\*                the messages are empty, an entry tells (history) which
\*                request the client published the notification for
\*   handling     the handler invocations in flight, as [id, data]
\*   drained      history: _onMessage found the stop that was called during work
\*   lastStop     history: the course of the latest stop() call, at-once | begun
\*   log          the failed commands _onMessage has logged, as [level, id, lost]:
\*                id is the request id in the logged text, lost (history) the
\*                request that gets no response because of the failure;
\*                and the LPOP replies that were empty, logged at debug level
\*   shutdowns    history: how often _shutdown was called since listen()

WorkerInit ==
    [started |-> FALSE, isListening |-> FALSE, isWorking |-> FALSE,
     publisher |-> FALSE, subscriber |-> FALSE,
     pubConn |-> "none", subConn |-> "none",
     pubPending |-> <<>>, subPending |-> <<>>,
     inbox |-> <<>>, handling |-> {}, stopPromise |-> "none", drained |-> FALSE,
     lastStop |-> "none", log |-> {}, shutdowns |-> 0]

HasCmd(pending, cmd) == \E i \in 1..Len(pending) : pending[i].cmd = cmd

RemoveAt(s, i) == SubSeq(s, 1, i - 1) \o SubSeq(s, i + 1, Len(s))

\* The subscriptions after a step of worker w: a closed connection has none.
SubsWithout(w, s) == IF s.subConn = "closed" THEN {x \in subs : x[1] # WConn(w)} ELSE subs

\* A _checkQueue that sends nothing.
checkQueueSkipped(s) == s

\* _checkQueue up to its await: LLEN is sent on the publisher connection; a
\* missing or closed connection raises inside the try and is only logged.
checkQueueStart(s) ==
    IF ~s.publisher \/ s.pubConn # "open" THEN s
    ELSE [s EXCEPT !.pubPending = Append(@, [cmd |-> "llen"])]

\* The guard of _onMessage: the message is ignored.
IgnoresWhenStopped(s) == ~s.isListening

\* A guard that lets a worker that was stopped take the message.
IgnoresWhenWorking(s) == s.isWorking

IgnoresMessage(s) == ~s.isListening \/ s.isWorking

\* The call of _onMessage by _checkQueue, which no notification has caused.
NoNotice == 0

\* _onMessage up to its await: claim the worker and send LPOP. (notice is
\* history: the request whose notification caused the call, or NoNotice.)
onMessageStart(s, notice) ==
    IF IgnoresMessage(s) THEN s
    ELSE [s EXCEPT !.isWorking = TRUE,
                   !.pubPending = Append(@, [cmd |-> "lpop", notice |-> notice])]

\* A finally block that leaves isWorking as it is.
onMessageFinallyKeepsWorking(s) == IF s.isListening THEN checkQueueStart(s) ELSE s

\* The finally block of _onMessage.
onMessageFinally(s) ==
    LET s1 == [s EXCEPT !.isWorking = FALSE]
    IN  IF s1.isListening THEN checkQueueStart(s1) ELSE s1

\* The finally block of _shutdown.
shutdownFinally(s) ==
    [s EXCEPT !.publisher = FALSE, !.subscriber = FALSE, !.stopPromise = "resolved"]

\* The catch block of _shutdown: both connections are ended by force; with a
\* field already undefined the block itself raises at that field.
shutdownCatch(s) ==
    IF ~s.publisher THEN s
    ELSE IF ~s.subscriber THEN [s EXCEPT !.pubConn = "closed"]
    ELSE [s EXCEPT !.pubConn = "closed", !.subConn = "closed"]

\* _shutdown up to its first await: QUIT is sent on the publisher connection.
\* A QUIT on a connection that is already closing is answered by the client
\* library itself (offline), not by the server.
shutdownStart(s) ==
    LET s1 == [s EXCEPT !.shutdowns = @ + 1]
    IN  IF ~s1.publisher THEN shutdownFinally(shutdownCatch(s1))
        ELSE [s1 EXCEPT !.pubPending = Append(@, [cmd |-> "quit",
                                                  offline |-> s1.pubConn # "open"]),
                        !.pubConn = IF @ = "open" THEN "closing" ELSE @]

\* _shutdown after publisher.quit() resolved: QUIT on the subscriber connection.
shutdownQuitSubscriber(s) ==
    IF ~s.subscriber THEN shutdownFinally(shutdownCatch(s))
    ELSE [s EXCEPT !.subPending = Append(@, [cmd |-> "quit", offline |-> s.subConn # "open"]),
                   !.subConn = IF @ = "open" THEN "closing" ELSE @]

\* The decision of stop() after UNSUBSCRIBE: wait for the task in flight or
\* shut down now.
stopShutsDownAtOnce(s) == shutdownStart(s)

\* A stop() that goes on whether the worker listens or not.
stopNeverAtOnce(s) == FALSE

\* stop(): "Don't do anything if not listening".
stopReturnsAtOnce(s) == ~s.isListening

stopAfterUnsubscribe(s) == IF s.isWorking THEN s ELSE shutdownStart(s)

\* The end of the try block of _onMessage after the response was published.
onMessageAfterPublish(s) ==
    IF ~s.isListening
    THEN onMessageFinally(shutdownStart([s EXCEPT !.drained = TRUE]))
    ELSE onMessageFinally(s)

\* _handleMessage: the response message for the outcome of the handler.
\* threw tells whether the handler raised; value is what it returned or raised.
handleMessage(id, threw, value) ==
    LET response == IF threw THEN Undefined ELSE value
        responseError == IF threw THEN value ELSE "null"
    IN  IF Truthy(responseError)
        THEN composeError(id, responseError)
        ELSE composeResponse(id, response)

\* A read of the head that leaves the list as it is (LINDEX 0).
lindexRest(list) == list

\* A pop that returns the head of the list and removes its last item.
rpopRest(list) == SubSeq(list, 1, Len(list) - 1)

\* LPOP: the head of the list is returned and removed from the list.
lpopRest(list) == Tail(list)

\* listen(): both connections are created and SUBSCRIBE is sent.  Workers are
\* interchangeable, so they are started in the order of their numbers.
Listen(w) ==
    /\ ~wk[w].started
    /\ \A w2 \in Workers : w2 < w => wk[w2].started
    /\ wk' = [wk EXCEPT ![w] = [@ EXCEPT !.started = TRUE,
                                         !.isListening = TRUE, !.isWorking = FALSE,
                                         !.publisher = TRUE, !.subscriber = TRUE,
                                         !.pubConn = "open", !.subConn = "open",
                                         !.subPending = Append(@, [cmd |-> "subscribe"])]]
    /\ UNCHANGED <<prefix, codec, opts, pubsubVars, queue, subs, invoked, published, clientVars>>

\* listen() after SUBSCRIBE: the worker is subscribed to the request channel
\* and runs its first queue check.
SubscribeReply(w) ==
    /\ wk[w].subPending # <<>> /\ Head(wk[w].subPending).cmd = "subscribe"
    /\ subs' = subs \cup {<<WConn(w), requestChannel(QueueName, Undefined)>>}
    /\ wk' = [wk EXCEPT ![w] = checkQueueStart([@ EXCEPT !.subPending = Tail(@)])]
    /\ UNCHANGED <<prefix, codec, opts, pubsubVars, queue, invoked, published, clientVars>>

\* The 'message' event of the subscriber connection: _onMessage.
OnMessage(w) ==
    /\ wk[w].inbox # <<>>
    /\ wk' = [wk EXCEPT ![w] = onMessageStart([@ EXCEPT !.inbox = Tail(@)], Head(wk[w].inbox))]
    /\ UNCHANGED <<prefix, codec, opts, pubsubVars, queue, subs, invoked, published, clientVars>>

\* _checkQueue after LLEN.
LlenReply(w) ==
    /\ wk[w].pubPending # <<>> /\ Head(wk[w].pubPending).cmd = "llen"
    /\ LET s == [wk[w] EXCEPT !.pubPending = Tail(@)]
           hasRequests == Len(queue)
       IN  wk' = [wk EXCEPT ![w] = IF s.isWorking \/ hasRequests = 0 THEN s
                                   ELSE onMessageStart(s, NoNotice)]
    /\ UNCHANGED <<prefix, codec, opts, pubsubVars, queue, subs, invoked, published, clientVars>>

\* _onMessage after LPOP: nothing was popped, which is logged at debug level
\* before the finally block runs, or the popped request is parsed and the
\* handler is invoked; a request that does not parse ends in the outer catch,
\* which logs a warning, and the finally block runs.
LpopReply(w) ==
    /\ wk[w].pubPending # <<>> /\ Head(wk[w].pubPending).cmd = "lpop"
    /\ LET s == [wk[w] EXCEPT !.pubPending = Tail(@)]
       IN  IF queue = <<>>
           THEN /\ wk' = [wk EXCEPT ![w] = onMessageFinally(
                            [s EXCEPT !.log = @ \cup {[level |-> "debug", id |-> Undefined,
                                                       lost |-> Undefined]}])]
                /\ UNCHANGED <<queue, invoked>>
           ELSE /\ queue' = lpopRest(queue)
                /\ IF Head(queue) = Malformed
                   THEN /\ wk' = [wk EXCEPT ![w] = onMessageFinally(
                                    [s EXCEPT !.log = @ \cup {[level |-> "warning",
                                                               id |-> Undefined,
                                                               lost |-> Malformed]}])]
                        /\ UNCHANGED invoked
                   ELSE LET req == parseRequest(Head(queue))
                        IN  /\ wk' = [wk EXCEPT ![w] = [s EXCEPT !.handling = @ \cup {req}]]
                            /\ invoked' = Append(invoked, [w |-> w, id |-> req.id, data |-> req.data])
    /\ UNCHANGED <<prefix, codec, opts, pubsubVars, subs, published, clientVars>>

\* The handler settles: it returns the payload (d => d) or raises it
\* (d => { throw d }); PUBLISH of the response is sent.
HandlerDone(w, h, threw) ==
    /\ h \in wk[w].handling
    /\ wk' = [wk EXCEPT ![w] =
                [@ EXCEPT !.handling = @ \ {h},
                          !.pubPending = Append(@, [cmd |-> "publish", id |-> h.id,
                                                    threw |-> threw, value |-> h.data,
                                                    msg |-> handleMessage(h.id, threw, h.data)])]]
    /\ UNCHANGED <<prefix, codec, opts, pubsubVars, queue, subs, invoked, published, clientVars>>

\* stop() on a worker that is not listening resolves at once.
StopIdle(w) ==
    /\ stopReturnsAtOnce(wk[w])
    /\ wk[w].lastStop # "at-once"
    /\ wk' = [wk EXCEPT ![w].lastStop = "at-once"]
    /\ UNCHANGED <<prefix, codec, opts, pubsubVars, queue, subs, invoked, published, clientVars>>

\* stop().
Stop(w) ==
    /\ ~stopReturnsAtOnce(wk[w])
    /\ wk' = [wk EXCEPT ![w] = [@ EXCEPT !.isListening = FALSE,
                                         !.stopPromise = "pending",
                                         !.lastStop = "begun",
                                         !.subPending = Append(@, [cmd |-> "unsubscribe"])]]
    /\ UNCHANGED <<prefix, codec, opts, pubsubVars, queue, subs, invoked, published, clientVars>>

\* stop() after UNSUBSCRIBE.
UnsubscribeReply(w) ==
    /\ wk[w].subPending # <<>> /\ Head(wk[w].subPending).cmd = "unsubscribe"
    /\ subs' = {x \in subs : x[1] # WConn(w)}
    /\ wk' = [wk EXCEPT ![w] = stopAfterUnsubscribe([@ EXCEPT !.subPending = Tail(@)])]
    /\ UNCHANGED <<prefix, codec, opts, pubsubVars, queue, invoked, published, clientVars>>

\* _shutdown after QUIT on the publisher connection.
PublisherQuitReply(w) ==
    /\ \E i \in 1..Len(wk[w].pubPending) :
          /\ wk[w].pubPending[i].cmd = "quit"
          /\ i = 1 \/ wk[w].pubPending[i].offline
          /\ LET s == shutdownQuitSubscriber([wk[w] EXCEPT !.pubPending = RemoveAt(@, i),
                                                            !.pubConn = "closed"])
             IN  /\ wk' = [wk EXCEPT ![w] = s]
                 /\ subs' = SubsWithout(w, s)
    /\ UNCHANGED <<prefix, codec, opts, pubsubVars, queue, invoked, published, clientVars>>

\* _shutdown after QUIT on the subscriber connection.
SubscriberQuitReply(w) ==
    /\ \E i \in 1..Len(wk[w].subPending) :
          /\ wk[w].subPending[i].cmd = "quit"
          /\ i = 1 \/ wk[w].subPending[i].offline
          /\ wk' = [wk EXCEPT ![w] =
                      shutdownFinally([@ EXCEPT !.subPending = RemoveAt(@, i),
                                                !.subConn = "closed"])]
    /\ subs' = {x \in subs : x[1] # WConn(w)}
    /\ UNCHANGED <<prefix, codec, opts, pubsubVars, queue, invoked, published, clientVars>>

\* _onMessage after PUBLISH of the response: the message reaches every
\* connection subscribed to the response channel of the request; then the
\* worker shuts down (stop() was called meanwhile) or goes on.
PublishReply(w) ==
    /\ wk[w].pubPending # <<>> /\ Head(wk[w].pubPending).cmd = "publish"
    /\ LET c == Head(wk[w].pubPending)
           to == Subscribers(responseChannel(c.id, Undefined))
           s == onMessageAfterPublish([wk[w] EXCEPT !.pubPending = Tail(@)])
       IN  /\ rq' = [r \in Reqs |-> IF RConn(r) \in to
                                    THEN [rq[r] EXCEPT !.inbox = Append(@, c.msg)]
                                    ELSE rq[r]]
           /\ published' = published \cup {[w |-> w, id |-> c.id, threw |-> c.threw,
                                                value |-> c.value, msg |-> c.msg,
                                                received |-> Cardinality(to),
                                                pending |-> \E r \in Reqs :
                                                    /\ uniqid(r) = c.id
                                                    /\ rq[r].state = "pending"]}
           /\ wk' = [wk EXCEPT ![w] = s]
           /\ subs' = SubsWithout(w, s)
    /\ UNCHANGED <<prefix, codec, opts, pubsubVars, queue, invoked, cl, tracker, timers>>

\* LPOP fails with a backend error: the outer catch of _onMessage logs a
\* warning and the finally block runs. The server may have popped the head
\* of the list (executed) before the reply was lost.
LpopFails(w, executed) ==
    /\ wk[w].pubPending # <<>> /\ Head(wk[w].pubPending).cmd = "lpop"
    /\ executed => queue # <<>> /\ Head(queue) # Malformed
    /\ LET s == [wk[w] EXCEPT !.pubPending = Tail(@)]
           lost == IF executed THEN parseRequest(Head(queue)).id ELSE Undefined
       IN  wk' = [wk EXCEPT ![w] = onMessageFinally(
                    [s EXCEPT !.log = @ \cup {[level |-> "warning", id |-> Undefined,
                                               lost |-> lost]}])]
    /\ queue' = IF executed THEN lpopRest(queue) ELSE queue
    /\ UNCHANGED <<prefix, codec, opts, pubsubVars, subs, invoked, published, clientVars>>

\* PUBLISH of the response fails with a backend error and reaches nobody: the
\* inner catch of _onMessage logs an error with the id of the request, and
\* _onMessage goes on as after a PUBLISH that was answered.
PublishFails(w) ==
    /\ wk[w].pubPending # <<>> /\ Head(wk[w].pubPending).cmd = "publish"
    /\ LET c == Head(wk[w].pubPending)
           s == onMessageAfterPublish(
                    [wk[w] EXCEPT !.pubPending = Tail(@),
                                  !.log = @ \cup {[level |-> "error", id |-> c.id,
                                                   lost |-> c.id]}])
       IN  /\ wk' = [wk EXCEPT ![w] = s]
           /\ subs' = SubsWithout(w, s)
    /\ UNCHANGED <<prefix, codec, opts, pubsubVars, queue, invoked, published, clientVars>>

\* ------------------------------------------------------ runningRequests

TrackerInit == [running |-> <<>>, resolved |-> TRUE, promiseResolve |-> FALSE]

\* An add(id) that never replaces the awaited promise.
trackerAddKeepsPromise(t, id) == [t EXCEPT !.running = Append(@, id)]

\* add(id) without its timer (the timer is set by the caller of this operator).
trackerAdd(t, id) ==
    LET run == Append(t.running, id)
    IN  IF Len(run) = 1
        THEN [running |-> run, resolved |-> FALSE, promiseResolve |-> TRUE]
        ELSE [t EXCEPT !.running = run]

\* A finish(id) that removes the id and leaves the awaited promise alone.
trackerFinishSilent(t, id) == [t EXCEPT !.running = SeqFilterOut(t.running, id)]

trackerFinish(t, id) ==
    LET run == SeqFilterOut(t.running, id)
    IN  IF Len(run) = 0 /\ t.promiseResolve
        THEN [running |-> run, resolved |-> TRUE, promiseResolve |-> FALSE]
        ELSE [t EXCEPT !.running = run]

hasRunning(t) == Len(t.running) > 0

\* ---------------------------------------------------------------- Client
\* The client is the record cl:
\*   publisher     whether the field holds the command connection
\*   conn          the state of that connection
\*   pending       the commands in flight on it, oldest first
\*   shuttingDown  the field of the same name
\*   disconnect    where the disconnect() call stands
\*   lastDisconnect  history: the course of the latest disconnect() call
\* A request call r is the record rq[r]:
\*   state, value  pending | resolved | rejected, and with what
\*   data          the payload
\*   exec          the command that _getDataFromWorker awaits, or "end"; for a
\*                 call that request() refused, the branch that refused it
\*   conn          the state of the per-request connection
\*   inbox         the messages received on it and not yet emitted
\*   listener      whether the once('message') listener is still registered
\*   expired       history: the timeout of the call has fired
\*   received      history: for each notification published for the call,
\*                 whether a connection received it (received > 0)

ClientInit ==
    [publisher |-> FALSE, conn |-> "none", pending |-> <<>>,
     shuttingDown |-> FALSE, disconnect |-> "none", lastDisconnect |-> "none"]

RequestInit ==
    [state |-> "none", value |-> Undefined, data |-> Undefined, exec |-> "none",
     conn |-> "none", inbox |-> <<>>, listener |-> FALSE, expired |-> FALSE,
     received |-> <<>>]

TrackerTimer(r) == [kind |-> "tracker", r |-> r]
RequestTimer(r) == [kind |-> "request", r |-> r]

\* The timer of the tracker and the timeout of a request are set in the same
\* turn with the same delay, so they expire together and their callbacks run
\* in one pass over the timer list. Between the two, the event loop of the
\* client runs nothing but promise continuations (or not even those, with the
\* runtime): no call of the user, no reply and no 'message' event.
TimerRun == timers # <<>> /\ Head(timers).kind = "request"

\* The error messages of the client.
TimeoutError == "Error(Request timed out)"
BackendError == "Error(backend)"

NotConnectedError == "Error(Client not connected)"
ShuttingDownError == "Error(Client currently shutting down)"
ReferenceError == "ReferenceError(reject is not defined)"

\* `return reject(error)` in the body of the async function request(): no
\* binding of the name reject is in scope there, so the evaluation of the
\* callee raises a ReferenceError before the call is made, and the promise
\* of request() is rejected with it.
refuse(error) == ReferenceError

\* A request() whose finally block leaves the per-request connection open.
requestSettledKeepsOpen(q, ok, value) ==
    [q EXCEPT !.state = IF ok THEN "resolved" ELSE "rejected", !.value = value]

\* request() after _getDataFromWorker settled: the finally block finishes the
\* request in the tracker and quits the per-request connection; the call
\* resolves with the response or rejects with the carried error.
requestSettled(q, ok, value) ==
    [q EXCEPT !.state = IF ok THEN "resolved" ELSE "rejected",
              !.value = value, !.conn = "closed"]

\* What the call resolves or rejects with for a parsed response.
responseOk(parsed) == parsed.ok
responseValue(parsed) == IF parsed.ok THEN parsed.response ELSE parsed.error

\* connect().
Connect ==
    /\ ~TimerRun
    /\ cl.conn = "none"
    /\ cl' = [cl EXCEPT !.shuttingDown = FALSE, !.publisher = TRUE, !.conn = "open"]
    /\ UNCHANGED <<prefix, codec, opts, pubsubVars, workerVars, rq, tracker, timers>>

\* request(data) on a connected client up to the first await: the request is
\* added to the tracker (which sets its timer), the timeout is set, the
\* listener is registered and SUBSCRIBE is sent on the new connection.
Request(r, d) ==
    /\ ~TimerRun
    /\ rq[r].state = "none"
    /\ \A r2 \in Reqs : r2 < r => rq[r2].state # "none"
    /\ cl.publisher /\ ~cl.shuttingDown
    /\ rq' = [rq EXCEPT ![r] = [state |-> "pending", value |-> Undefined, data |-> d,
                                exec |-> "subscribe", conn |-> "open",
                                inbox |-> <<>>, listener |-> TRUE, expired |-> FALSE,
                                received |-> <<>>]]
    /\ tracker' = trackerAdd(tracker, uniqid(r))
    /\ timers' = timers \o <<TrackerTimer(r), RequestTimer(r)>>
    /\ UNCHANGED <<prefix, codec, opts, pubsubVars, workerVars, cl>>

\* request(data) on a client that is not connected, or that is shutting down:
\* the call returns in one of the first two branches.
RequestRefused(r) ==
    /\ ~TimerRun
    /\ rq[r].state = "none"
    /\ \A r2 \in Reqs : r2 < r => rq[r2].state # "none"
    /\ ~cl.publisher \/ cl.shuttingDown
    /\ rq' = [rq EXCEPT ![r].state = "rejected",
                        ![r].exec = IF ~cl.publisher THEN "not-connected" ELSE "shutting-down",
                        ![r].value = IF ~cl.publisher THEN refuse(NotConnectedError)
                                     ELSE refuse(ShuttingDownError)]
    /\ UNCHANGED <<prefix, codec, opts, pubsubVars, workerVars, cl, tracker, timers>>

\* The catch block of _getDataFromWorker: the timer is cleared and the call,
\* if still pending, is rejected with the error.
RequestFails(r, error) ==
    /\ timers' = SeqFilterOut(timers, RequestTimer(r))
    /\ IF rq[r].state = "pending"
       THEN /\ rq' = [rq EXCEPT ![r] = [requestSettled(@, FALSE, error) EXCEPT !.exec = "end"]]
            /\ tracker' = trackerFinish(tracker, uniqid(r))
            /\ subs' = {x \in subs : x[1] # RConn(r)}
       ELSE /\ rq' = [rq EXCEPT ![r].exec = "end"]
            /\ UNCHANGED <<tracker, subs>>

\* Whether a command can be sent on the command connection.
CanSend == cl.publisher /\ cl.conn = "open"

\* _getDataFromWorker after SUBSCRIBE: RPUSH is sent on the command connection.
RequestSubscribed(r) ==
    /\ ~TimerRun
    /\ rq[r].exec = "subscribe"
    /\ IF CanSend
       THEN /\ rq' = [rq EXCEPT ![r].exec = "rpush"]
            /\ cl' = [cl EXCEPT !.pending = Append(@, [cmd |-> "rpush", r |-> r])]
            /\ subs' = IF rq[r].conn = "open"
                       THEN subs \cup {<<RConn(r), responseChannel(uniqid(r), prefix)>>}
                       ELSE subs
            /\ UNCHANGED <<tracker, timers>>
       ELSE /\ RequestFails(r, BackendError)
            /\ UNCHANGED cl
    /\ UNCHANGED <<prefix, codec, opts, pubsubVars, queue, wk, invoked, published>>

\* An RPUSH that leaves the list as it is.
rpushDropped(list, item) == list

\* An RPUSH that appends the item twice.
rpushTwice(list, item) == Append(Append(list, item), item)

\* RPUSH: the item is appended at the tail of the list.
rpush(list, item) == Append(list, item)

\* _getDataFromWorker after RPUSH: the request is in the queue; PUBLISH of the
\* notification is sent.
RpushReply ==
    /\ ~TimerRun
    /\ cl.pending # <<>> /\ Head(cl.pending).cmd = "rpush"
    /\ LET r == Head(cl.pending).r
       IN  /\ queue' = rpush(queue, composeRequest(uniqid(r), rq[r].data))
           /\ rq' = [rq EXCEPT ![r].exec = "publish"]
           /\ cl' = [cl EXCEPT !.pending = Append(Tail(@), [cmd |-> "publish", r |-> r])]
    /\ UNCHANGED <<prefix, codec, opts, pubsubVars, subs, wk, invoked, published, tracker, timers>>

\* notifyWorkers after PUBLISH: every connection subscribed to the request
\* channel of the client has the notification in its inbox.
NotifyReply ==
    /\ ~TimerRun
    /\ cl.pending # <<>> /\ Head(cl.pending).cmd = "publish"
    /\ LET r == Head(cl.pending).r
           to == Subscribers(requestChannel(QueueName, prefix))
       IN  /\ wk' = [w \in Workers |-> IF WConn(w) \in to
                                       THEN [wk[w] EXCEPT !.inbox = Append(@, r)]
                                       ELSE wk[w]]
           /\ rq' = [rq EXCEPT ![r].exec = "end", ![r].received = Append(@, Cardinality(to) > 0)]
           /\ cl' = [cl EXCEPT !.pending = Tail(@)]
    /\ UNCHANGED <<prefix, codec, opts, pubsubVars, queue, subs, invoked, published, tracker, timers>>

\* SUBSCRIBE on the per-request connection fails with a backend error: the
\* catch block of _getDataFromWorker rejects the call.
SubscribeFails(r) ==
    /\ ~TimerRun
    /\ rq[r].exec = "subscribe"
    /\ RequestFails(r, BackendError)
    /\ UNCHANGED <<prefix, codec, opts, pubsubVars, queue, wk, invoked, published, cl>>

\* RPUSH fails with a backend error and has pushed nothing.
RpushFails ==
    /\ ~TimerRun
    /\ cl.pending # <<>> /\ Head(cl.pending).cmd = "rpush"
    /\ RequestFails(Head(cl.pending).r, BackendError)
    /\ cl' = [cl EXCEPT !.pending = Tail(@)]
    /\ UNCHANGED <<prefix, codec, opts, pubsubVars, queue, wk, invoked, published>>

\* PUBLISH of the notification fails with a backend error and has notified
\* nobody; the request stays in the queue.
NotifyFails ==
    /\ ~TimerRun
    /\ cl.pending # <<>> /\ Head(cl.pending).cmd = "publish"
    /\ RequestFails(Head(cl.pending).r, BackendError)
    /\ cl' = [cl EXCEPT !.pending = Tail(@)]
    /\ UNCHANGED <<prefix, codec, opts, pubsubVars, queue, wk, invoked, published>>

\* A listener whose resolve(...) and reject(...) settle the call again.
responseOverrides(q, m) ==
    IF m = Malformed THEN requestSettled(q, FALSE, "SyntaxError")
    ELSE requestSettled(q, responseOk(parseResponse(m)), responseValue(parseResponse(m)))

\* The once-listener of the per-request connection: resolve(parseResponse(
\* message)), or reject(error) when the message does not parse; neither
\* touches a promise that is settled.
responseSettles(q, m) ==
    IF q.state # "pending" THEN q
    ELSE IF m = Malformed THEN requestSettled(q, FALSE, "SyntaxError")
    ELSE requestSettled(q, responseOk(parseResponse(m)), responseValue(parseResponse(m)))

\* The 'message' event of a per-request connection: the once-listener clears
\* the timer and settles the call with the parsed response. (A message that
\* the connection has received is emitted also after quit() was called.)
ResponseMessage(r) ==
    /\ ~TimerRun
    /\ rq[r].inbox # <<>>
    /\ LET m == Head(rq[r].inbox)
       IN  IF ~rq[r].listener
           THEN /\ rq' = [rq EXCEPT ![r].inbox = Tail(@)]
                /\ UNCHANGED <<tracker, timers, subs>>
           ELSE /\ timers' = SeqFilterOut(timers, RequestTimer(r))
                /\ rq' = [rq EXCEPT ![r] = [responseSettles(@, m) EXCEPT
                                              !.inbox = Tail(@), !.listener = FALSE]]
                /\ IF rq[r].state = "pending"
                   THEN /\ tracker' = trackerFinish(tracker, uniqid(r))
                        /\ subs' = {x \in subs : x[1] # RConn(r)}
                   ELSE UNCHANGED <<tracker, subs>>
    /\ UNCHANGED <<prefix, codec, opts, pubsubVars, queue, wk, invoked, published, cl>>

\* A timeout callback that only reports the timeout.
timeoutLogged(q) == q

\* A timeout callback that rejects with the id of the request.
timeoutRejectsWithId(q) ==
    IF q.state = "pending" THEN requestSettled(q, FALSE, "Error(id)") ELSE q

\* The callback of the timeout: reject(new Error("Request timed out")), which
\* settles a call that is still pending.
timeoutCallback(q) ==
    IF q.state = "pending" THEN requestSettled(q, FALSE, TimeoutError) ELSE q

\* The timeout of a request fires.
RequestTimeout(r) ==
    /\ timers # <<>> /\ Head(timers) = RequestTimer(r)
    /\ timers' = Tail(timers)
    /\ LET q == timeoutCallback(rq[r])
       IN  /\ rq' = [rq EXCEPT ![r] = [q EXCEPT !.expired = TRUE]]
           /\ IF q.state # rq[r].state
              THEN /\ tracker' = trackerFinish(tracker, uniqid(r))
                   /\ subs' = {x \in subs : x[1] # RConn(r)}
              ELSE UNCHANGED <<tracker, subs>>
    /\ UNCHANGED <<prefix, codec, opts, pubsubVars, queue, wk, invoked, published, cl>>

\* The timer that add(id) set fires: finish(id).
TrackerTimeout(r) ==
    /\ timers # <<>> /\ Head(timers) = TrackerTimer(r)
    /\ timers' = Tail(timers)
    /\ tracker' = trackerFinish(tracker, uniqid(r))
    /\ UNCHANGED <<prefix, codec, opts, pubsubVars, workerVars, rq, cl>>

\* disconnect() sends QUIT on the command connection.
disconnectQuit(c) ==
    [c EXCEPT !.conn = "closing", !.disconnect = "quitting",
              !.pending = Append(@, [cmd |-> "quit"])]

\* disconnect(): "If not connected, do nothing".
disconnectReturnsAtOnce(c) == ~c.publisher

\* disconnect() on a client that is not connected returns at once.
DisconnectIdle ==
    /\ ~TimerRun
    /\ disconnectReturnsAtOnce(cl)
    /\ cl.lastDisconnect # "at-once"
    /\ cl' = [cl EXCEPT !.lastDisconnect = "at-once"]
    /\ UNCHANGED <<prefix, codec, opts, pubsubVars, workerVars, rq, tracker, timers>>

\* disconnect() on a connected client: it waits for the running requests, if
\* there are any, and quits.
Disconnect ==
    /\ ~TimerRun
    /\ ~disconnectReturnsAtOnce(cl) /\ cl.disconnect = "none"
    /\ LET c == [cl EXCEPT !.shuttingDown = TRUE, !.lastDisconnect = "begun"]
       IN  cl' = IF hasRunning(tracker) THEN [c EXCEPT !.disconnect = "waiting"]
                 ELSE disconnectQuit(c)
    /\ UNCHANGED <<prefix, codec, opts, pubsubVars, workerVars, rq, tracker, timers>>

\* disconnect() after runningRequests.await().
DisconnectDrained ==
    /\ cl.disconnect = "waiting" /\ tracker.resolved
    /\ cl' = disconnectQuit(cl)
    /\ UNCHANGED <<prefix, codec, opts, pubsubVars, workerVars, rq, tracker, timers>>

\* disconnect() after QUIT.
DisconnectQuitReply ==
    /\ ~TimerRun
    /\ cl.pending # <<>> /\ Head(cl.pending).cmd = "quit"
    /\ cl' = [cl EXCEPT !.pending = Tail(@), !.publisher = FALSE,
                        !.conn = "closed", !.disconnect = "resolved"]
    /\ UNCHANGED <<prefix, codec, opts, pubsubVars, workerVars, rq, tracker, timers>>

\* ------------------------------------------------------------- Publisher
\* The construction of the participants: both publishers publish on the
\* channel "one", the second with minimumRecipients 2; the subscribers listen
\* on "one", but for the last, which listens on "two".
PubChannelName(p) == "one"
SubChannelName(s) == IF s = NumSubscribers THEN "two" ELSE "one"
minimumRecipients(p) == IF p = 1 THEN 0 ELSE 2

\* this.channel of a publisher and of a subscriber: the publisher passes its
\* prefix to the key builder, the subscriber passes none.
PubChannel(p) == pubSubChannel(PubChannelName(p), prefix)
SubChannel(s) == pubSubChannel(SubChannelName(s), Undefined)

PConn(p) == <<"publisher", p>>
SConn(s) == <<"subscriber", s>>

AlreadyConnectedError == "Error(Publisher already connected.)"
AlreadyListeningError == "Error(Subscriber already listening.)"
PublisherNotConnectedError == "Error(publisher not connected)"
NotEnoughError == "Error(Could not reach enough subscribers)"
ClosedError == "AbortError(The connection is already closed.)"

\* A publisher p is the record pb[p]:
\*   publisher       whether the field holds a connection
\*   conn, pending   the state of the connection and the commands in flight
\*   opened          the number of connections created and not closed
\*   lastConnect     history: the result of the latest connect() call
\*   disconnect      the promise of the disconnect() call that sent QUIT
\*   lastDisconnect  history: the course of the latest disconnect() call since connect()
PublisherInit ==
    [publisher |-> FALSE, conn |-> "none", pending |-> <<>>, opened |-> 0,
     lastConnect |-> "none", disconnect |-> "none", lastDisconnect |-> "none"]

\* A connect() that connects whether there is a connection or not.
connectNeverRefused(s) == FALSE

\* connect(): this.publisher !== undefined.
connectRefused(s) == s.publisher

\* connect() on a connected publisher is rejected.
PubConnectRefused(p) ==
    /\ connectRefused(pb[p])
    /\ pb[p].lastConnect # AlreadyConnectedError
    /\ pb' = [pb EXCEPT ![p].lastConnect = AlreadyConnectedError]
    /\ UNCHANGED <<prefix, codec, opts, workerVars, clientVars, sb, calls>>

\* connect() creates the connection and resolves.
PubConnect(p) ==
    /\ ~connectRefused(pb[p])
    /\ pb[p].opened < 2
    /\ pb' = [pb EXCEPT ![p] = [@ EXCEPT !.publisher = TRUE, !.conn = "open", !.pending = <<>>,
                                         !.opened = @ + 1, !.lastConnect = "resolved",
                                         !.disconnect = "none", !.lastDisconnect = "none"]]
    /\ UNCHANGED <<prefix, codec, opts, workerVars, clientVars, sb, calls>>

\* disconnect() on a publisher that is not connected resolves at once.
PubDisconnectIdle(p) ==
    /\ ~pb[p].publisher
    /\ pb[p].lastDisconnect # "at-once"
    /\ pb' = [pb EXCEPT ![p].lastDisconnect = "at-once"]
    /\ UNCHANGED <<prefix, codec, opts, workerVars, clientVars, sb, calls>>

\* disconnect() on a connected publisher sends QUIT. (The calls of the
\* user are taken one after the other: no disconnect() is called while the
\* QUIT of an earlier one is in flight.)
PubDisconnect(p) ==
    /\ pb[p].publisher /\ pb[p].disconnect # "pending"
    /\ pb' = [pb EXCEPT ![p] = [@ EXCEPT !.conn = "closing", !.disconnect = "pending",
                                         !.lastDisconnect = "begun",
                                         !.pending = Append(@, [cmd |-> "quit"])]]
    /\ UNCHANGED <<prefix, codec, opts, workerVars, clientVars, sb, calls>>

\* The callback of QUIT.
PubQuitReply(p) ==
    /\ pb[p].pending # <<>> /\ Head(pb[p].pending).cmd = "quit"
    /\ pb' = [pb EXCEPT ![p] = [@ EXCEPT !.pending = Tail(@), !.publisher = FALSE,
                                         !.conn = "closed", !.opened = @ - 1,
                                         !.disconnect = "resolved"]]
    /\ UNCHANGED <<prefix, codec, opts, workerVars, clientVars, sb, calls>>

\* A publish() call is the record calls[i]:
\*   p, id, message  the publisher, the id it drew and the message
\*   state, value    pending | resolved | rejected, and with what
\*   listening       the subscribers of the channel whose listen() had resolved
\*                   and whose stop() had not been called when PUBLISH took effect
\*   settled         whether no subscriber was inside listen() or stop() then
\*   recipients      the connections that received the message
PublishCall(p, i) ==
    [p |-> p, id |-> "msg" \o ToString(i), message |-> "m" \o ToString(i),
     state |-> "pending", value |-> Undefined, listening |-> {}, settled |-> FALSE,
     recipients |-> {}]

\* publish(message) up to the PUBLISH command.
PubPublish(p) ==
    /\ Len(calls) < MaxPublishes
    /\ LET i == Len(calls) + 1
           c == PublishCall(p, i)
       IN  IF ~pb[p].publisher
           THEN /\ calls' = Append(calls, [c EXCEPT !.state = "rejected",
                                                    !.value = PublisherNotConnectedError])
                /\ pb' = pb
           ELSE IF pb[p].conn # "open"
           THEN /\ calls' = Append(calls, [c EXCEPT !.state = "rejected",
                                                    !.value = ClosedError])
                /\ pb' = pb
           ELSE /\ calls' = Append(calls, c)
                /\ pb' = [pb EXCEPT ![p].pending = Append(@, [cmd |-> "publish", call |-> i])]
    /\ UNCHANGED <<prefix, codec, opts, workerVars, clientVars, sb>>

\* A publish() that resolves with the count whatever the minimum is.
publishCountOnly(c, received, minimum) ==
    [c EXCEPT !.state = "resolved", !.value = received]

\* A publish() that wants more recipients than the minimum.
publishAboveMinimum(c, received, minimum) ==
    IF received <= minimum
    THEN [c EXCEPT !.state = "rejected", !.value = NotEnoughError]
    ELSE [c EXCEPT !.state = "resolved", !.value = received]

\* The callback of PUBLISH without error.
publishOutcome(c, received, minimum) ==
    IF received < minimum
    THEN [c EXCEPT !.state = "rejected", !.value = NotEnoughError]
    ELSE [c EXCEPT !.state = "resolved", !.value = received]

\* The subscribers of a channel whose listen() has resolved and whose stop()
\* has not been called, and those that are inside listen() or stop().
Listening(channel) ==
    {s \in SubIds : SubChannel(s) = channel /\ sb[s].isListening /\ sb[s].listen = "resolved"}
InTransition(channel) ==
    {s \in SubIds : SubChannel(s) = channel /\ (sb[s].listen = "pending" \/ sb[s].stop = "pending")}

\* PUBLISH takes effect: the message is in the inbox of every connection that
\* is subscribed to the channel, and the callback settles the call.
PubPublishReply(p) ==
    /\ pb[p].pending # <<>> /\ Head(pb[p].pending).cmd = "publish"
    /\ LET i == Head(pb[p].pending).call
           to == Subscribers(PubChannel(p))
           m == composePubSubMessage(calls[i].id, calls[i].message)
       IN  /\ sb' = [s \in SubIds |-> IF SConn(s) \in to
                                      THEN [sb[s] EXCEPT !.inbox = Append(@, m)]
                                      ELSE sb[s]]
           /\ calls' = [calls EXCEPT ![i] =
                          publishOutcome([@ EXCEPT !.listening = Listening(PubChannel(p)),
                                                   !.settled = (InTransition(PubChannel(p)) = {}),
                                                   !.recipients = to],
                                         Cardinality(to), minimumRecipients(p))]
           /\ pb' = [pb EXCEPT ![p].pending = Tail(@)]
    /\ UNCHANGED <<prefix, codec, opts, workerVars, clientVars>>

\* ------------------------------------------------------------ Subscriber
\* A subscriber s is the record sb[s]:
\*   isListening     the field of the same name
\*   subscriber      whether the field holds a connection
\*   conn, pending   the state of the connection and the commands in flight
\*   inbox           the messages received and not yet emitted as 'message'
\*   opened          the number of connections created and not closed
\*   listen, stop    the promises of the listen() call that subscribed and of
\*                   the stop() call that unsubscribed
\*   lastListen, lastStop   history: the course of the latest call, of stop() since listen()
\*   handled         history: the handler invocations, as [id, message, outcome]
\*   unhandled       a failure has left _onMessage
SubscriberInit ==
    [isListening |-> FALSE, subscriber |-> FALSE, conn |-> "none", pending |-> <<>>,
     inbox |-> <<>>, opened |-> 0, listen |-> "none", lastListen |-> "none",
     stop |-> "none", lastStop |-> "none", handled |-> <<>>, unhandled |-> FALSE]

\* The handlers the subscribers are constructed with: the first returns; the
\* others throw on the first message and return a rejected promise on the
\* messages that follow.
handle(s, message) ==
    IF s = 1 THEN "returns" ELSE IF message = "m1" THEN "throws" ELSE "rejects"

\* A listen() that goes on whether the subscriber listens or not.
listenNeverRefused(s) == FALSE

\* listen(): if (this.isListening).
listenRefused(s) == s.isListening

\* listen() on a listening subscriber is rejected.
SubListenRefused(s) ==
    /\ listenRefused(sb[s])
    /\ sb[s].lastListen # AlreadyListeningError
    /\ sb' = [sb EXCEPT ![s].lastListen = AlreadyListeningError]
    /\ UNCHANGED <<prefix, codec, opts, workerVars, clientVars, pb, calls>>

\* listen() up to the SUBSCRIBE command. (The calls of the user are taken one
\* after the other: no listen() is called while a stop() is in progress.)
SubListen(s) ==
    /\ ~listenRefused(sb[s])
    /\ sb[s].stop # "pending"
    /\ sb[s].opened < 2
    /\ sb' = [sb EXCEPT ![s] = [@ EXCEPT !.isListening = TRUE, !.subscriber = TRUE,
                                         !.conn = "open",
                                         !.pending = <<[cmd |-> "subscribe"]>>,
                                         !.inbox = <<>>, !.opened = @ + 1,
                                         !.listen = "pending", !.lastListen = "begun",
                                         !.stop = "none", !.lastStop = "none"]]
    /\ UNCHANGED <<prefix, codec, opts, workerVars, clientVars, pb, calls>>

\* The callback of SUBSCRIBE. The replies on the connection come after the
\* messages that were received before them.
SubSubscribeReply(s) ==
    /\ sb[s].pending # <<>> /\ Head(sb[s].pending).cmd = "subscribe"
    /\ sb[s].inbox = <<>>
    /\ subs' = subs \cup {<<SConn(s), SubChannel(s)>>}
    /\ sb' = [sb EXCEPT ![s] = [@ EXCEPT !.pending = Tail(@), !.listen = "resolved"]]
    /\ UNCHANGED <<prefix, codec, opts, queue, wk, invoked, published, clientVars, pb, calls>>

\* The callback of SUBSCRIBE with an error: the error is logged and listen()
\* is rejected with it; isListening and the connection stay as listen() has
\* set them. The command has not taken effect on the server.
SubSubscribeFails(s) ==
    /\ sb[s].pending # <<>> /\ Head(sb[s].pending).cmd = "subscribe"
    /\ sb[s].inbox = <<>>
    /\ sb' = [sb EXCEPT ![s] = [@ EXCEPT !.pending = Tail(@), !.listen = "rejected",
                                         !.lastListen = BackendError]]
    /\ UNCHANGED <<prefix, codec, opts, workerVars, clientVars, pb, calls>>

\* stop() on a subscriber that is not listening resolves at once.
SubStopIdle(s) ==
    /\ ~sb[s].isListening
    /\ sb[s].lastStop # "at-once"
    /\ sb' = [sb EXCEPT ![s].lastStop = "at-once"]
    /\ UNCHANGED <<prefix, codec, opts, workerVars, clientVars, pb, calls>>

\* stop() on a listening subscriber sends UNSUBSCRIBE.
SubStop(s) ==
    /\ sb[s].isListening
    /\ sb' = [sb EXCEPT ![s] = [@ EXCEPT !.isListening = FALSE, !.stop = "pending",
                                         !.lastStop = "begun",
                                         !.pending = Append(@, [cmd |-> "unsubscribe"])]]
    /\ UNCHANGED <<prefix, codec, opts, workerVars, clientVars, pb, calls>>

\* An UNSUBSCRIBE that leaves the subscriptions as they are.
unsubscribedNothing(subscriptions, conn) == subscriptions

\* UNSUBSCRIBE without a channel: the connection is subscribed to nothing.
unsubscribed(subscriptions, conn) == {x \in subscriptions : x[1] # conn}

\* The callback of UNSUBSCRIBE sends QUIT.
SubUnsubscribeReply(s) ==
    /\ sb[s].pending # <<>> /\ Head(sb[s].pending).cmd = "unsubscribe"
    /\ sb[s].inbox = <<>>
    /\ subs' = unsubscribed(subs, SConn(s))
    /\ sb' = [sb EXCEPT ![s] = [@ EXCEPT !.pending = Append(Tail(@), [cmd |-> "quit"]),
                                         !.conn = "closing"]]
    /\ UNCHANGED <<prefix, codec, opts, queue, wk, invoked, published, clientVars, pb, calls>>

\* The callback of QUIT.
SubQuitReply(s) ==
    /\ sb[s].pending # <<>> /\ Head(sb[s].pending).cmd = "quit"
    /\ sb[s].inbox = <<>>
    /\ sb' = [sb EXCEPT ![s] = [@ EXCEPT !.pending = Tail(@), !.subscriber = FALSE,
                                         !.conn = "closed", !.opened = @ - 1,
                                         !.stop = "resolved"]]
    /\ UNCHANGED <<prefix, codec, opts, workerVars, clientVars, pb, calls>>

\* A failure of the handler that leaves _onMessage.
handlerFailureRaised(s, outcome) ==
    IF outcome = "returns" THEN s ELSE [s EXCEPT !.unhandled = TRUE]

\* _onMessage after the handler: what it threw, or what the promise it
\* returned was rejected with, is caught and logged.
handlerFailureCaught(s, outcome) == s

\* The 'message' event: _onMessage parses the message and calls the handler.
\* The parse stands before the try block: for a message that JSON.parse
\* rejects the promise of _onMessage is rejected, and nobody handles it.
SubOnMessage(s) ==
    /\ sb[s].inbox # <<>>
    /\ LET text == Head(sb[s].inbox)
           rest == [sb[s] EXCEPT !.inbox = Tail(@)]
       IN  IF text = Malformed
           THEN sb' = [sb EXCEPT ![s] = [rest EXCEPT !.unhandled = TRUE]]
           ELSE LET m == parsePubSubMessage(text)
                    outcome == handle(s, m.message)
                IN  sb' = [sb EXCEPT ![s] =
                             handlerFailureCaught(
                                 [rest EXCEPT !.handled = Append(@, [id |-> m.id,
                                                                     message |-> m.message,
                                                                     outcome |-> outcome])],
                                 outcome)]
    /\ UNCHANGED <<prefix, codec, opts, workerVars, clientVars, pb, calls>>

\* ----------------------------------------------------- other programs
\* Another program on the same Redis server pushes a text that is no JSON
\* onto the request queue, or publishes one on the channel of subscriber s.

ForeignPush ==
    /\ \A k \in 1..Len(queue) : queue[k] # Malformed
    /\ queue' = Append(queue, Malformed)
    /\ UNCHANGED <<prefix, codec, opts, pubsubVars, subs, wk, invoked, published, clientVars>>

ForeignPublish(s) ==
    /\ <<SConn(s), SubChannel(s)>> \in subs
    /\ \A x \in SubIds : \A k \in 1..Len(sb[x].inbox) : sb[x].inbox[k] # Malformed
    /\ sb' = [x \in SubIds |-> IF <<SConn(x), SubChannel(s)>> \in subs
                               THEN [sb[x] EXCEPT !.inbox = Append(@, Malformed)]
                               ELSE sb[x]]
    /\ UNCHANGED <<prefix, codec, opts, workerVars, clientVars, pb, calls>>

\* ---------------------------------------------------------------- defaults
\* An options object is a record over OptionKeys: a property is Absent or
\* has a value. The redis options are an object of their own, {prefix: ...}
\* or one without prefix, whose prefix reads as undefined; no code of the
\* library writes into a redis options object, so it is modelled by its value.

Absent == [has |-> FALSE]

Have(v) == [has |-> TRUE, value |-> v]

OptionKeys == {"redis", "timeout", "minimumRecipients"}

EmptyObject == [k \in OptionKeys |-> Absent]

\* Object.assign(target, source): every property of the source is written
\* into the target; the result is the target.
assign(target, source) ==
    [k \in OptionKeys |-> IF source[k].has THEN source[k] ELSE target[k]]

\* let defaults = { redis: { prefix: 'rrb:' }, timeout: 1000, minimumRecipients: 0 }
DefaultsInit ==
    [redis |-> Have([prefix |-> "rrb:"]), timeout |-> Have(1000),
     minimumRecipients |-> Have(0)]

\* setDefaults(options): Object.assign(defaults, options); the defaults after it.
setDefaults(defaults, options) == assign(defaults, options)

\* An apply that merges into the defaults object: Object.assign(defaults, options).
applyOntoDefaults(defaults, options) ==
    [returns |-> assign(defaults, options), defaults |-> assign(defaults, options)]

\* apply(options): Object.assign({}, defaults, options); what it returns and
\* the defaults after it.
apply(defaults, options) ==
    [returns |-> assign(assign(EmptyObject, defaults), options), defaults |-> defaults]

\* this.redisOptions ? this.redisOptions.prefix || '' : ''
prefixOf(redisOptions) ==
    IF ~redisOptions.has THEN ""
    ELSE IF ~Truthy(redisOptions.value.prefix) THEN ""
    ELSE redisOptions.value.prefix

\* What the constructor of a Client and of a Publisher keeps of the options
\* that apply returned.
newClient(o) == [timeout |-> o.timeout, prefix |-> prefixOf(o.redis)]
newPublisher(o) == [minimumRecipients |-> o.minimumRecipients, prefix |-> prefixOf(o.redis)]

\* The options objects that the calls are made with.
OptionObjects ==
    {EmptyObject,
     [EmptyObject EXCEPT !.timeout = Have(500)],
     [EmptyObject EXCEPT !.redis = Have([prefix |-> "x:"])],
     [EmptyObject EXCEPT !.redis = Have([prefix |-> Undefined]),
                         !.minimumRecipients = Have(2)]}

NotMade == [made |-> FALSE]

\* opts: the defaults object of the module, the latest call of apply with
\* what it was given and what it returned, and the client and the publisher
\* that were constructed.
OptsInit ==
    [defaults |-> DefaultsInit, applied |-> [called |-> FALSE],
     client |-> NotMade, publisher |-> NotMade]

SetDefaultsCall(options) ==
    /\ opts' = [opts EXCEPT !.defaults = setDefaults(@, options)]
    /\ UNCHANGED <<prefix, codec, pubsubVars, workerVars, clientVars>>

ApplyCall(options) ==
    /\ LET a == apply(opts.defaults, options)
       IN  opts' = [opts EXCEPT !.defaults = a.defaults,
                                !.applied = [called |-> TRUE, given |-> options,
                                             returned |-> a.returns]]
    /\ UNCHANGED <<prefix, codec, pubsubVars, workerVars, clientVars>>

NewClient(options) ==
    /\ ~opts.client.made
    /\ LET a == apply(opts.defaults, options)
       IN  opts' = [opts EXCEPT !.defaults = a.defaults,
                                !.client = [made |-> TRUE, is |-> newClient(a.returns)]]
    /\ UNCHANGED <<prefix, codec, pubsubVars, workerVars, clientVars>>

NewPublisher(options) ==
    /\ ~opts.publisher.made
    /\ LET a == apply(opts.defaults, options)
       IN  opts' = [opts EXCEPT !.defaults = a.defaults,
                                !.publisher = [made |-> TRUE, is |-> newPublisher(a.returns)]]
    /\ UNCHANGED <<prefix, codec, pubsubVars, workerVars, clientVars>>

\* --------------------------------------------------------- specification

\* The codec is not used on its own.
CodecIdle == [stage |-> "idle"]

Init ==
    /\ prefix \in Prefixes
    /\ queue = <<>>
    /\ subs = {}
    /\ wk = [w \in Workers |-> WorkerInit]
    /\ invoked = <<>>
    /\ published = {}
    /\ rq = [r \in Reqs |-> RequestInit]
    /\ cl = ClientInit
    /\ tracker = TrackerInit
    /\ timers = <<>>
    /\ pb = [p \in PubIds |-> PublisherInit]
    /\ sb = [s \in SubIds |-> SubscriberInit]
    /\ calls = <<>>
    /\ codec = CodecIdle
    /\ opts = OptsInit

\* The steps of a worker that serves requests.
ServeNext(w) ==
    \/ Listen(w)
    \/ SubscribeReply(w)
    \/ OnMessage(w)
    \/ LlenReply(w)
    \/ LpopReply(w)
    \/ \E h \in wk[w].handling, threw \in BOOLEAN : HandlerDone(w, h, threw)
    \/ PublishReply(w)

\* The steps of a worker that is stopped.
StopNext(w) ==
    \/ Stop(w)
    \/ UnsubscribeReply(w)
    \/ PublisherQuitReply(w)
    \/ SubscriberQuitReply(w)

\* The steps of a client that connects and sends requests with payloads of D.
SendNext(D) ==
    \/ Connect
    \/ \E r \in Reqs, d \in D : Request(r, d)
    \/ \E r \in Reqs : RequestSubscribed(r)
    \/ RpushReply
    \/ NotifyReply

\* The responses that reach the client, and its disconnect().
LifecycleNext ==
    \/ \E r \in Reqs : ResponseMessage(r)
    \/ \E r \in Reqs : RequestRefused(r)
    \/ Disconnect
    \/ DisconnectDrained
    \/ DisconnectQuitReply

\* The timers of the client.
TimerNext ==
    \/ \E r \in Reqs : TrackerTimeout(r)
    \/ \E r \in Reqs : RequestTimeout(r)

\* Dispatch: every worker listens, serves and stops, while the client issues
\* requests whose timeout is longer than the run and whose responses it has
\* not yet looked at.
DispatchNext == (\E w \in Workers : ServeNext(w) \/ StopNext(w)) \/ SendNext({"data"})

SpecDispatch == Init /\ [][DispatchNext]_vars

\* Request lifecycle: the client issues requests, they time out, the client
\* disconnects, while the first Servers workers listen and serve.
Servers == 1

RequestNext ==
    \/ \E w \in 1..Servers : ServeNext(w)
    \/ SendNext(Data)
    \/ LifecycleNext
    \/ TimerNext

SpecRequest == Init /\ [][RequestNext]_vars

\* The request lifecycle with exactly one worker: the first worker alone
\* listens and serves.
OneWorkerNext ==
    \/ ServeNext(1)
    \/ SendNext(Data)
    \/ LifecycleNext
    \/ TimerNext

SpecOneWorker == Init /\ [][OneWorkerNext]_vars

\* The steps of a publisher that connects and publishes.
PublisherNext(p) ==
    \/ PubConnect(p)
    \/ PubPublish(p)
    \/ PubPublishReply(p)

\* The steps of a subscriber that listens, handles the messages and stops.
SubscriberNext(s) ==
    \/ SubListen(s)
    \/ SubSubscribeReply(s)
    \/ SubStop(s)
    \/ SubUnsubscribeReply(s)
    \/ SubQuitReply(s)
    \/ SubOnMessage(s)

\* Pub/sub: the publishers connect and publish while the subscribers listen,
\* handle and stop.
PubSubNext == (\E p \in PubIds : PublisherNext(p)) \/ (\E s \in SubIds : SubscriberNext(s))

SpecPubSub == Init /\ [][PubSubNext]_vars

\* The steps that start and shut down a worker, the client, a publisher and
\* a subscriber.
StartStopNext ==
    \/ Listen(1) \/ SubscribeReply(1) \/ LlenReply(1) \/ StopNext(1)
    \/ Connect \/ Disconnect \/ DisconnectQuitReply
    \/ PubConnect(1) \/ PubDisconnect(1) \/ PubQuitReply(1)
    \/ SubListen(1) \/ SubSubscribeReply(1) \/ SubStop(1)
    \/ SubUnsubscribeReply(1) \/ SubQuitReply(1)

\* The calls that shut down a participant that is not running.
ShutdownIdleNext ==
    \/ StopIdle(1)
    \/ DisconnectIdle
    \/ PubDisconnectIdle(1)
    \/ SubStopIdle(1)

\* Start and stop: one worker, the client, one publisher and one subscriber
\* are started and shut down over and over, and shut down when not running.
SpecStartStop == Init /\ [][StartStopNext \/ ShutdownIdleNext]_vars

\* The tracker on its own: add(id) and finish(id) are called in any order for
\* the ids of Tracked, and the timers that add(id) has set fire.
MaxTracked == 3
Tracked == 1..MaxTracked

TrackerAddCall(i) ==
    /\ Len(timers) < MaxTracked
    /\ tracker' = trackerAdd(tracker, uniqid(i))
    /\ timers' = Append(timers, TrackerTimer(i))
    /\ UNCHANGED <<prefix, codec, opts, pubsubVars, workerVars, rq, cl>>

TrackerFinishCall(i) ==
    /\ tracker' = trackerFinish(tracker, uniqid(i))
    /\ UNCHANGED <<prefix, codec, opts, pubsubVars, workerVars, rq, cl, timers>>

TrackerNext ==
    \E i \in Tracked : TrackerAddCall(i) \/ TrackerFinishCall(i) \/ TrackerTimeout(i)

SpecTracker == Init /\ [][TrackerNext]_vars

\* The request lifecycle with commands of the client that fail.
ClientFailureNext ==
    \/ RequestNext
    \/ \E r \in Reqs : SubscribeFails(r)
    \/ RpushFails
    \/ NotifyFails

SpecClientFailure == Init /\ [][ClientFailureNext]_vars

\* The request lifecycle with commands of the serving workers that fail.
WorkerFailureNext ==
    \/ RequestNext
    \/ \E w \in 1..Servers, executed \in BOOLEAN : LpopFails(w, executed)
    \/ \E w \in 1..Servers : PublishFails(w)

SpecWorkerFailure == Init /\ [][WorkerFailureNext]_vars

\* A worker that listens, serves and is stopped, also by a stop() that finds
\* it not listening, while the client issues requests.
StopAgainNext == ServeNext(1) \/ StopNext(1) \/ StopIdle(1) \/ SendNext({"data"})

SpecStopAgain == Init /\ [][StopAgainNext]_vars

\* Texts that do not parse: one worker serves the requests of the client
\* and one subscriber handles the messages of one publisher, while another
\* program pushes and publishes texts that are no JSON.
MalformedNext ==
    \/ ServeNext(1) \/ SendNext({"data"}) \/ ForeignPush
    \/ PublisherNext(1) \/ SubListen(1) \/ SubSubscribeReply(1) \/ SubOnMessage(1)
    \/ ForeignPublish(1)

SpecMalformed == Init /\ [][MalformedNext]_vars

\* The codec on its own: a composer is called with an id and a value, and the
\* parser of the same kind is called with the text.
CodecKinds == {"request", "pubsub", "response", "error"}
CodecIds == {uniqid(r) : r \in Reqs}
CodecValues == Falsy \cup {"data", "{name:Error,message:data}"} \cup ErrorInstances

CodecInit ==
    /\ codec \in {[stage |-> "input", kind |-> k, id |-> i, value |-> v] :
                    k \in CodecKinds, i \in CodecIds, v \in CodecValues}
    /\ prefix \in Prefixes
    /\ queue = <<>> /\ subs = {} /\ invoked = <<>> /\ published = {}
    /\ wk = [w \in Workers |-> WorkerInit]
    /\ rq = [r \in Reqs |-> RequestInit]
    /\ cl = ClientInit /\ tracker = TrackerInit /\ timers = <<>>
    /\ pb = [p \in PubIds |-> PublisherInit]
    /\ sb = [s \in SubIds |-> SubscriberInit]
    /\ calls = <<>>
    /\ opts = OptsInit

CodecCompose ==
    /\ codec.stage = "input"
    /\ codec' = [stage |-> "text", kind |-> codec.kind, id |-> codec.id,
                 value |-> codec.value,
                 text |-> CASE codec.kind = "request" -> composeRequest(codec.id, codec.value)
                            [] codec.kind = "pubsub" -> composePubSubMessage(codec.id, codec.value)
                            [] codec.kind = "response" -> composeResponse(codec.id, codec.value)
                            [] codec.kind = "error" -> composeError(codec.id, codec.value)]
    /\ UNCHANGED <<prefix, opts, pubsubVars, workerVars, clientVars>>

CodecParse ==
    /\ codec.stage = "text"
    /\ codec' = [stage |-> "parsed", kind |-> codec.kind, id |-> codec.id,
                 value |-> codec.value,
                 parsed |-> CASE codec.kind = "request" -> parseRequest(codec.text)
                              [] codec.kind = "pubsub" -> parsePubSubMessage(codec.text)
                              [] OTHER -> parseResponse(codec.text)]
    /\ UNCHANGED <<prefix, opts, pubsubVars, workerVars, clientVars>>

SpecCodec == CodecInit /\ [][CodecCompose \/ CodecParse]_vars

\* The defaults: setDefaults and apply are called and a client and a
\* publisher are constructed, in any order, with the options of OptionObjects.
DefaultsNext ==
    \E o \in OptionObjects :
        SetDefaultsCall(o) \/ ApplyCall(o) \/ NewClient(o) \/ NewPublisher(o)

SpecDefaults == Init /\ [][DefaultsNext]_vars

\* The calls that start a participant that is running.
StartAgainNext ==
    \/ PubConnectRefused(1)
    \/ SubListenRefused(1)

\* Start again: one publisher connects, publishes and disconnects and one
\* subscriber listens, handles and stops over and over, and are started when
\* running.
StartAgainAllNext ==
    \/ PublisherNext(1) \/ PubDisconnect(1) \/ PubQuitReply(1)
    \/ SubscriberNext(1)
    \/ StartAgainNext

SpecStartAgain == Init /\ [][StartAgainAllNext]_vars

\* Start again, with a SUBSCRIBE of the subscriber that may fail.
SpecListenFailure == Init /\ [][StartAgainAllNext \/ SubSubscribeFails(1)]_vars

\* Timers fire: a timer that has expired has its callback run. Nothing is
\* assumed of the backend, whose replies may never come.
FairTimers ==
    /\ SpecRequest
    /\ \A r \in Reqs : WF_vars(TrackerTimeout(r)) /\ WF_vars(RequestTimeout(r))

\* Timers fire, the commands on the command connection of the client are
\* answered, and the continuations of disconnect() run.
FairDisconnect ==
    /\ FairTimers
    /\ WF_vars(RpushReply) /\ WF_vars(NotifyReply)
    /\ WF_vars(DisconnectDrained) /\ WF_vars(DisconnectQuitReply)

\* Besides, the commands of the serving workers are answered, the messages
\* they received are emitted, and their handlers settle.
FairServe ==
    /\ FairDisconnect
    /\ \A r \in Reqs : WF_vars(RequestSubscribed(r))
    /\ \A w \in 1..Servers :
          /\ WF_vars(SubscribeReply(w)) /\ WF_vars(OnMessage(w))
          /\ WF_vars(LlenReply(w)) /\ WF_vars(LpopReply(w))
          /\ WF_vars(\E h \in wk[w].handling, threw \in BOOLEAN : HandlerDone(w, h, threw))
          /\ WF_vars(PublishReply(w))

\* ------------------------------------------------------- claims: dispatch

\* A worker that has nothing in flight: no command on either connection, no
\* handler invocation and no notification waiting.
Quiet(w) ==
    /\ wk[w].pubPending = <<>> /\ wk[w].subPending = <<>>
    /\ wk[w].handling = {} /\ wk[w].inbox = <<>>

\* The requests a worker w has claimed and not yet answered: its handler
\* invocations in flight and its responses whose PUBLISH is in flight.
InFlight(w) ==
    wk[w].handling # {} \/ HasCmd(wk[w].pubPending, "publish")

\* C1: the handler is invoked for a request by at most one worker and at most
\* once: no two invocations of the history carry the same request id.
C1_InvokedAtMostOnce ==
    \A i, j \in 1..Len(invoked) : invoked[i].id = invoked[j].id => i = j

\* C1 witness: two workers were notified of the same request and raced for
\* it; one has invoked the handler, the LPOP of the other is in flight on
\* the empty queue.
C1_Witness ==
    \E w1, w2 \in Workers :
        /\ w1 # w2
        /\ \E i \in 1..Len(invoked) : invoked[i].w = w1
        /\ HasCmd(wk[w2].pubPending, "lpop")
        /\ queue = <<>>
        /\ Len(invoked) = 1

\* C2: a worker has at most one handler invocation in flight, whatever the
\* interleaving of notifications, queue checks, completions and stop().
C2_OneInvocationInFlight ==
    \A w \in Workers : Cardinality(wk[w].handling) <= 1

\* C2 witness: a worker with a handler invocation in flight has consumed all
\* of its notifications while another request, whose notification has been
\* published, waits in the queue, and no other worker is listening.
C2_Witness ==
    \E w \in Workers :
        /\ Cardinality(wk[w].handling) = 1
        /\ wk[w].inbox = <<>> /\ wk[w].pubPending = <<>>
        /\ queue # <<>>
        /\ \A r \in Reqs : rq[r].exec = "end"
        /\ \A w2 \in Workers \ {w} : ~wk[w2].isListening

\* C9: while a worker has a request in flight, stop() or not, both of its
\* connections are open; and the promise of stop() is resolved only when
\* nothing is in flight and both connections have been shut down.
C9_StopDrainsBeforeShutdown ==
    \A w \in Workers :
        /\ InFlight(w) => wk[w].pubConn = "open" /\ wk[w].subConn = "open"
        /\ wk[w].stopPromise = "resolved" =>
               /\ ~InFlight(w)
               /\ wk[w].pubConn = "closed" /\ wk[w].subConn = "closed"
               /\ ~wk[w].publisher /\ ~wk[w].subscriber

\* C9 witness: stop() was called during the handling of a request, the
\* response was published, _onMessage started the shutdown and the promise
\* of stop() is resolved.
C9_Witness ==
    \E w \in Workers :
        /\ wk[w].drained /\ wk[w].stopPromise = "resolved"
        /\ \E p \in published : p.w = w

\* C6: every stop() on a listening worker resolves. Stated on finite runs:
\* a worker that has nothing in flight, and so takes no further step, does
\* not have an unresolved stop().
C6_StopResolved ==
    \A w \in Workers : Quiet(w) => wk[w].stopPromise # "pending"

\* -------------------------------------------------------- claims: requests

\* C3: a call that resolves does so with the response that a worker computed
\* from the data of that very call: the value is the response field of a
\* message published under the id of the call, and that message is what
\* _handleMessage composes for the id and the data of the call.
C3_OwnResponse ==
    \A r \in Reqs :
        rq[r].state = "resolved" =>
            \E p \in published :
                /\ p.id = uniqid(r)
                /\ p.msg = handleMessage(uniqid(r), p.threw, rq[r].data)
                /\ rq[r].value = Field(p.msg, "response")

\* C3 witness: two calls with different data were pending together; the
\* second has resolved with its own data while the response to the first
\* still waits on the connection of the first.
C3_Witness ==
    /\ rq[1].state = "pending" /\ rq[1].inbox # <<>>
    /\ rq[2].state = "resolved" /\ rq[2].value = rq[2].data
    /\ rq[1].data # rq[2].data

\* C4: when the handler raises e, whatever e is, the published response has
\* ok = false and carries e, and the call of the client is not resolved but
\* rejected with e.
C4_RaisedIsRejected ==
    \A p \in published :
        p.threw =>
            /\ Field(p.msg, "ok") = "false" /\ Field(p.msg, "error") = p.value
            /\ \A r \in Reqs :
                   uniqid(r) = p.id =>
                       /\ rq[r].state # "resolved"
                       /\ rq[r].state = "rejected" =>
                              rq[r].value \in {p.value, TimeoutError}

\* C5: the command connection of the client is not closed (QUIT is not sent
\* on it) while a request call is pending.
C5_NoQuitWhilePending ==
    cl.conn \in {"closing", "closed"} => \A r \in Reqs : rq[r].state # "pending"

\* C8: a call whose timeout has fired, no response having reached it before,
\* is rejected with the error "Request timed out".
C8_TimedOut ==
    \A r \in Reqs :
        rq[r].expired => rq[r].state = "rejected" /\ rq[r].value = TimeoutError

\* C8 witness: a request was queued and notified while no worker listened,
\* no response was published, and its timeout has fired.
C8_Witness ==
    \E r \in Reqs :
        /\ rq[r].expired /\ rq[r].exec = "end"
        /\ rq[r].state = "rejected" /\ rq[r].value = TimeoutError
        /\ published = {} /\ \A w \in Workers : ~wk[w].started

\* C7: every accepted request call terminates, with timers that fire and a
\* backend of which nothing is assumed.
C7_RequestTerminates ==
    \A r \in Reqs : (rq[r].state = "pending") ~> (rq[r].state \in {"resolved", "rejected"})

\* C7 witness: a call has terminated while a backend command of the
\* request is still unanswered and no worker listens.
C7_Witness ==
    \E r \in Reqs :
        /\ rq[r].state = "rejected"
        /\ rq[r].exec \in {"subscribe", "rpush", "publish"}
        /\ \A w \in Workers : ~wk[w].started

\* C10: a disconnect() that waits for the running requests completes.
C10_DisconnectCompletes ==
    (cl.disconnect = "waiting") ~> (cl.disconnect = "resolved")

\* C10 witness: disconnect() waited for a request, the timer of the tracker
\* released it, and it goes on to quit while the call, to which no response
\* was published, is still unsettled and its timeout has not run.
C10_Witness ==
    /\ cl.disconnect = "quitting" /\ published = {}
    /\ \E r \in Reqs : rq[r].state = "pending" /\ ~rq[r].expired

\* ------------------------------------------------- claims: refused requests

\* C11: request() on a client that is not connected (never connected, or
\* disconnected) is rejected with the error "Client not connected", opens no
\* connection and leaves the tracker alone.
C11_NotConnectedRejected ==
    \A r \in Reqs :
        rq[r].exec = "not-connected" =>
            /\ rq[r].state = "rejected" /\ rq[r].value = NotConnectedError
            /\ rq[r].conn = "none"
            /\ \A i \in 1..Len(tracker.running) : tracker.running[i] # uniqid(r)

\* C12: request() on a client whose disconnect() has begun and has not
\* completed is rejected with the error "Client currently shutting down",
\* opens no connection and is not added to the tracker.
C12_ShuttingDownRejected ==
    \A r \in Reqs :
        rq[r].exec = "shutting-down" =>
            /\ rq[r].state = "rejected" /\ rq[r].value = ShuttingDownError
            /\ rq[r].conn = "none"
            /\ \A i \in 1..Len(tracker.running) : tracker.running[i] # uniqid(r)

\* ------------------------------------------------ claims: repeated calls
\* A call of stop() or disconnect() is made in the step: the history of the
\* latest call changes to the course of a call.
Called(before, after) == after # before /\ after \in {"begun", "at-once"}

Sent ==
    {i \in 1..Len(calls) :
        \/ calls[i].state = "resolved"
        \/ /\ calls[i].state = "rejected"
           /\ calls[i].value \notin {PublisherNotConnectedError, ClosedError}}

\* The handler invocations of subscriber s for the message with the id, and
\* the copies of that message it has received and not yet handled.
Invocations(s, id) == {k \in 1..Len(sb[s].handled) : sb[s].handled[k].id = id}
Waiting(s, id) == {k \in 1..Len(sb[s].inbox) : parsePubSubMessage(sb[s].inbox[k]).id = id}

Failing == {s \in SubIds : \A i \in 1..MaxPublishes : handle(s, "m" \o ToString(i)) # "returns"}

Started(before, after, openedBefore, openedAfter) ==
    after # before \/ openedAfter > openedBefore

\* C18: connect() on a connected publisher is rejected with 'Publisher
\* already connected.' and changes nothing, so that the connection stays open
\* with its commands in flight; connect() on a publisher that is not
\* connected, be it new or disconnected, creates the one connection and
\* resolves.
C18_ConnectTwiceRejected ==
    [][\A p \in PubIds :
          Started(pb[p].lastConnect, pb'[p].lastConnect, pb[p].opened, pb'[p].opened)
          => IF pb[p].publisher
             THEN /\ pb' = [pb EXCEPT ![p].lastConnect = AlreadyConnectedError]
                  /\ UNCHANGED <<prefix, codec, opts, workerVars, clientVars, sb, calls>>
             ELSE /\ pb'[p].lastConnect = "resolved"
                  /\ pb'[p].publisher /\ pb'[p].conn = "open" /\ pb'[p].opened = 1]_vars

\* The publisher has disconnected (a publish() met the closing connection),
\* has connected again, was refused a second connect() on that connection
\* and has published on it.
C18_Witness ==
    /\ Len(calls) = 2
    /\ calls[1].state = "rejected" /\ calls[1].value = ClosedError
    /\ calls[2].state = "resolved"
    /\ pb[1].lastConnect = AlreadyConnectedError
    /\ pb[1].publisher /\ pb[1].conn = "open" /\ pb[1].opened = 1

\* C19: listen() on a listening subscriber is rejected with 'Subscriber
\* already listening.' and changes nothing: no connection is created and
\* the subscription stays; listen() on a subscriber whose stop() has
\* completed creates the one connection and subscribes it.
C19_ListenTwiceRejected ==
    [][\A s \in SubIds :
          Started(sb[s].lastListen, sb'[s].lastListen, sb[s].opened, sb'[s].opened)
          => IF sb[s].isListening
             THEN /\ sb' = [sb EXCEPT ![s].lastListen = AlreadyListeningError]
                  /\ UNCHANGED <<prefix, codec, opts, workerVars, clientVars, pb, calls>>
             ELSE /\ sb'[s].lastListen = "begun"
                  /\ sb'[s].isListening /\ sb'[s].conn = "open" /\ sb'[s].opened = 1
                  /\ sb'[s].pending = <<[cmd |-> "subscribe"]>>]_vars

\* The subscriber listened when the first message was published and had
\* stopped when the second was; it has listened again, is subscribed, and was
\* refused a second listen().
C19_Witness ==
    /\ Len(calls) = 2
    /\ calls[1].listening = {1} /\ calls[2].settled /\ calls[2].listening = {}
    /\ sb[1].lastListen = AlreadyListeningError
    /\ sb[1].isListening /\ sb[1].listen = "resolved" /\ sb[1].opened = 1
    /\ <<SConn(1), SubChannel(1)>> \in subs

\* ------------------------------------------- claims: order of a request
\* Request r is in the queue; a worker has taken it from the queue.
InQueue(r) == \E k \in 1..Len(queue) : queue[k] # Malformed /\ parseRequest(queue[k]).id = uniqid(r)
ClaimedBy(r) == {invoked[k].w : k \in {j \in 1..Len(invoked) : invoked[j].id = uniqid(r)}}

\* The requests worker w has been notified of: the notifications it has
\* received and the one its LPOP in flight was caused by.
Noticed(w) ==
    {wk[w].inbox[k] : k \in 1..Len(wk[w].inbox)}
    \cup {wk[w].pubPending[k].notice :
            k \in {j \in 1..Len(wk[w].pubPending) : wk[w].pubPending[j].cmd = "lpop"}}

\* The worker's LPOP that a notification caused is in flight.
Popping(w) ==
    {wk[w].pubPending[k].notice :
        k \in {j \in 1..Len(wk[w].pubPending) : wk[w].pubPending[j].cmd = "lpop"}} \ {NoNotice}

\* The client has pushed a request only after the SUBSCRIBE of its connection
\* was answered, and a response is published only for such a request.
SubscribedFirst ==
    /\ \A r \in Reqs : InQueue(r) \/ ClaimedBy(r) # {} => rq[r].exec \in {"publish", "end"}
    /\ \A m \in published : \E r \in Reqs : m.id = uniqid(r) /\ rq[r].exec \in {"publish", "end"}

C21_QueuedIsClaimed ==
    \A r \in Reqs :
        (InQueue(r) /\ wk[1].isListening) ~> (ClaimedBy(r) # {})

\* The notification of request r was published and reached no connection.
Unnoticed(r) == rq[r].received = <<FALSE>>

\* C22: a request whose notification reached no worker is not rejected for
\* that (only its timeout rejects it); no worker acts on its notification,
\* so that what claims it is the queue check of a worker that listened
\* later; and when the handler has returned and the response is published
\* while the call is pending, the response reaches the call, which resolves
\* with what the handler returned unless its timeout fires first.
C22_LateWorkerServes ==
    \A r \in Reqs :
        Unnoticed(r) =>
            /\ rq[r].state = "rejected" =>
                    rq[r].expired \/ \E m \in published : m.id = uniqid(r) /\ m.threw
            /\ \A w \in Workers : r \notin Noticed(w)
            /\ \A m \in published :
                    m.id = uniqid(r) /\ m.pending /\ ~m.threw =>
                        CASE rq[r].state = "pending" ->
                                \E k \in 1..Len(rq[r].inbox) : rq[r].inbox[k] = m.msg
                          [] rq[r].state = "resolved" -> rq[r].value = rq[r].data
                          [] OTHER -> rq[r].expired

\* ------------------------------------------------ claims: stop() resolves

\* A connection of a worker that is not open: closed, or never created.
Closed(conn) == conn \in {"none", "closed"}

\* A promise of stop() of worker w resolves in the step: the promise of the
\* stop() that began the shutdown, or that of a stop() that returns at once.
StopResolves(w) ==
    \/ wk[w].stopPromise # "resolved" /\ wk'[w].stopPromise = "resolved"
    \/ wk[w].lastStop # "at-once" /\ wk'[w].lastStop = "at-once"

\* C23: whenever a promise of stop() resolves, both connections of the worker
\* are closed, also for a stop() called while an earlier stop() is waiting
\* for the request in flight.
C23_ResolvedMeansClosed ==
    [][\A w \in Workers :
          StopResolves(w) => Closed(wk'[w].pubConn) /\ Closed(wk'[w].subConn)]_vars

\* ---------------------------------------------------- claims: when to pop

\* The number of LPOP commands worker record s has in flight.
Lpops(s) == Cardinality({k \in 1..Len(s.pubPending) : s.pubPending[k].cmd = "lpop"})

\* C24: a worker sends LPOP only in a step that finds it listening and not
\* working, with no handler running, and its handler is invoked only by the
\* reply to such an LPOP; so a notification or a queue check that comes
\* while a request is in flight or after stop() causes neither.
C24_PopsOnlyWhenIdle ==
    [][\A w \in Workers :
          /\ Lpops(wk'[w]) > Lpops(wk[w]) =>
                wk[w].isListening /\ ~wk[w].isWorking /\ wk[w].handling = {}
          /\ wk'[w].handling \ wk[w].handling # {} => Lpops(wk'[w]) < Lpops(wk[w])]_vars

\* stop() was called on the worker, which then received the notification of
\* the first request and has emitted it: no LPOP followed, the request is
\* still in the queue and no handler was invoked.
C24_Witness ==
    /\ ~wk[1].isListening /\ wk[1].started
    /\ rq[1].received = <<TRUE>>
    /\ wk[1].inbox = <<>> /\ Lpops(wk[1]) = 0
    /\ InQueue(1) /\ invoked = <<>>

\* ------------------------------------------------------ claims: the tracker

\* The ids the tracker holds.
Running(t) == {t.running[k] : k \in 1..Len(t.running)}

\* C25: after any sequence of add, finish and automatic finish the promise
\* that await() waits for is unresolved exactly while ids are pending, and
\* hasRunning() is true exactly then; finish for an id that is not pending
\* leaves the tracker as it is.
C25_DrainedIffEmpty ==
    /\ tracker.resolved <=> Running(tracker) = {}
    /\ hasRunning(tracker) <=> ~tracker.resolved
    /\ \A i \in Tracked :
          uniqid(i) \notin Running(tracker) => trackerFinish(tracker, uniqid(i)) = tracker

\* The first id was added and finished by a call while its timer is still to
\* fire (its automatic finish will find no id), and the second id is pending.
C25_Witness ==
    /\ timers = <<TrackerTimer(1), TrackerTimer(2)>>
    /\ tracker.running = <<uniqid(2)>>
    /\ ~tracker.resolved

\* --------------------------------------------- claims: the end of a request

\* The request call r was accepted and has terminated.
Terminated(r) ==
    /\ rq[r].state \in {"resolved", "rejected"}
    /\ rq[r].exec \notin {"not-connected", "shutting-down"}

\* The timers that are set and have neither fired nor been cleared.
Armed == {timers[k] : k \in 1..Len(timers)}

C27_SettlesOnce ==
    [][\A r \in Reqs :
          /\ rq[r].state \in {"resolved", "rejected"} =>
                rq'[r].state = rq[r].state /\ rq'[r].value = rq[r].value
          /\ rq[r].state = "pending" /\ ~rq[r].expired /\ rq'[r].expired =>
                rq'[r].state = "rejected" /\ rq'[r].value = TimeoutError
          /\ rq[r].state = "pending" /\ rq'[r].state # "pending" /\ ~rq'[r].expired =>
                RequestTimer(r) \notin {timers'[k] : k \in 1..Len(timers')}]_vars

\* The timeout has rejected the first call and the response that its
\* connection had received was emitted afterwards; the response of the
\* second call came before its timeout.
C27_Witness ==
    /\ rq[1].state = "rejected" /\ rq[1].value = TimeoutError
    /\ rq[1].expired /\ ~rq[1].listener
    /\ rq[2].state = "resolved" /\ ~rq[2].expired

\* ------------------------------------------------- claims: pushed just once

\* How often request r was pushed: its items in the queue and its items that
\* a worker has popped.
Pushes(r) ==
    Cardinality({k \in 1..Len(queue) :
                    queue[k] # Malformed /\ parseRequest(queue[k]).id = uniqid(r)})
    + Cardinality({k \in 1..Len(invoked) : invoked[k].id = uniqid(r)})

\* C28 as stated: a call that was accepted and has gone through its commands
\* has pushed exactly one item and published exactly one notification.
C28_ExactlyOnePush ==
    \A r \in Reqs :
        rq[r].exec = "end" => Pushes(r) = 1 /\ Len(rq[r].received) = 1

\* C28 (as amended): a call never has more than one item pushed nor more
\* than one notification published, whatever happens to it afterwards; it has
\* pushed one item once its RPUSH is answered, and has pushed one item and
\* published one notification once its PUBLISH is answered.
C28_AtMostOnePush ==
    \A r \in Reqs :
        /\ Pushes(r) <= 1 /\ Len(rq[r].received) <= 1
        /\ rq[r].exec = "publish" => Pushes(r) = 1
        /\ Len(rq[r].received) = 1 => Pushes(r) = 1 /\ rq[r].exec = "end"

\* The notification of the first request reached nobody, the request was
\* claimed later, its call has timed out and its response was published to
\* nobody: the queue is empty and nothing was pushed again.
C28_Witness ==
    /\ Unnoticed(1) /\ rq[1].expired /\ Pushes(1) = 1
    /\ \E m \in published : m.id = uniqid(1) /\ m.received = 0
    /\ queue = <<>> /\ \A w \in Workers : wk[w].pubPending = <<>>
    /\ prefix = ""

\* ------------------------------------------- claims: failures in the worker

\* Worker record s is working on something: a command of _onMessage is in
\* flight or its handler runs.
Busy(s) == Lpops(s) > 0 \/ s.handling # {} \/ HasCmd(s.pubPending, "publish")

\* C29: the step in which LPOP or the PUBLISH of a response fails logs the
\* failure and leaves the worker listening, subscribed and not working, with
\* the queue check of the finally block sent; the worker is never working
\* with nothing in flight, so it claims what comes later; and a request that
\* gets no response because of the failure ends by its timeout only.
C29_FailureLeavesIdle ==
    [][\A w \in Workers :
          /\ wk'[w].log # wk[w].log =>
                /\ ~wk'[w].isWorking /\ wk'[w].isListening
                /\ <<WConn(w), requestChannel(QueueName, Undefined)>> \in subs'
                /\ HasCmd(wk'[w].pubPending, "llen")
          /\ wk'[w].isWorking => Busy(wk'[w])
          /\ \A e \in wk'[w].log : \A r \in Reqs :
                e.lost = uniqid(r) /\ rq'[r].state # "pending" =>
                    /\ rq'[r].state = "rejected" /\ rq'[r].value = TimeoutError
                    /\ rq'[r].expired]_vars

\* The PUBLISH of the response of the first request failed and the call has
\* timed out; the worker has since claimed the second request and invoked
\* the handler for it.
C29_Witness ==
    /\ \E e \in wk[1].log : e.level = "error" /\ e.lost = uniqid(1)
    /\ rq[1].state = "rejected" /\ rq[1].value = TimeoutError
    /\ Len(invoked) = 2 /\ invoked[2].id = uniqid(2) /\ invoked[2].w = 1

\* ------------------------------------------ claims: a handler that raises

\* The responses of worker w: those it has published and the one whose
\* PUBLISH is in flight, as [threw, msg].
Responses(w) ==
    {[threw |-> p.threw, msg |-> p.msg] : p \in {x \in published : x.w = w}}
    \cup {[threw |-> wk[w].pubPending[k].threw, msg |-> wk[w].pubPending[k].msg] :
            k \in {j \in 1..Len(wk[w].pubPending) : wk[w].pubPending[j].cmd = "publish"}}

\* C30: for a handler invocation that raised, the response the worker
\* publishes is the error response (ok = false); the worker is never left
\* working with nothing in flight, so it handles what follows; and it keeps
\* listening.
C30_RaisedIsAnswered ==
    \A w \in Workers :
        /\ \A p \in Responses(w) : p.threw => Field(p.msg, "ok") = "false"
        /\ wk[w].isWorking => Busy(wk[w])
        /\ wk[w].started => wk[w].isListening

\* ------------------------------------------ claims: texts that do not parse

\* C31: a text that does not parse stops nobody and is logged, never raised:
\* no handler is invoked for it, by a worker or by a subscriber; the worker
\* that popped it is never left working with nothing in flight, so it serves
\* what comes later; and no failure leaves the _onMessage of a subscriber
\* unhandled.
C31_MalformedIsLogged ==
    /\ \A k \in 1..Len(invoked) : invoked[k].id # Undefined
    /\ \A w \in Workers : wk[w].isWorking => Busy(wk[w])
    /\ \A s \in SubIds :
          /\ \A k \in 1..Len(sb[s].handled) : sb[s].handled[k].id # Undefined
          /\ ~sb[s].unhandled

\* ------------------------------------------------ claims: the lost race

\* The entry that _onMessage logs when LPOP returned nothing.
NothingPopped == [level |-> "debug", id |-> Undefined, lost |-> Undefined]

\* C32: the step in which the LPOP of a worker is answered on the empty
\* queue invokes no handler and publishes nothing, neither then nor through a
\* PUBLISH left in flight; it leaves the worker not working, and a worker
\* that listens sends its queue check. A worker is never working with
\* nothing in flight, so the idle worker claims what is enqueued next.
C32_LoserIdles ==
    [][\A w \in Workers :
          /\ Lpops(wk'[w]) < Lpops(wk[w]) /\ queue = <<>> =>
                /\ invoked' = invoked /\ published' = published
                /\ wk'[w].handling = {} /\ ~HasCmd(wk'[w].pubPending, "publish")
                /\ ~wk'[w].isWorking /\ NothingPopped \in wk'[w].log
                /\ wk[w].isListening => HasCmd(wk'[w].pubPending, "llen")
          /\ wk'[w].isWorking => Busy(wk'[w])]_vars

\* Both workers were notified of the first request and the first worker
\* claimed it; the second worker found the queue empty and went idle, and
\* has since claimed the second request and invoked the handler for it.
C32_Witness ==
    /\ NothingPopped \in wk[2].log
    /\ Len(invoked) = 2
    /\ invoked[1].w = 1 /\ invoked[1].id = uniqid(1)
    /\ invoked[2].w = 2 /\ invoked[2].id = uniqid(2)
    /\ wk[2].handling # {} /\ wk[2].lastStop = "none"

\* ------------------------------------------- claims: first in, first out

\* The ids of the requests that were pushed, in the order in which they are
\* handled: those the handler was invoked for, followed by those in the queue.
PushOrder ==
    [k \in 1..Len(invoked) |-> invoked[k].id]
    \o [k \in 1..Len(queue) |-> parseRequest(queue[k]).id]

\* C33: with one worker listening, the requests are handled in the order in
\* which they were pushed: a push adds at the end of the order and nothing
\* else changes it, so the handler is invoked for the request that was pushed
\* first among those in the queue; and it is invoked only when no earlier
\* invocation is running or has its response still being published.
C33_HandledInPushOrder ==
    [][/\ Len(PushOrder') >= Len(PushOrder)
       /\ SubSeq(PushOrder', 1, Len(PushOrder)) = PushOrder
       /\ Len(invoked') > Len(invoked) =>
             /\ ~InFlight(1)
             /\ invoked' = Append(invoked, [w |-> 1, id |-> parseRequest(Head(queue)).id,
                                            data |-> parseRequest(Head(queue)).data])]_vars

\* The second request was pushed before the first: the handler was invoked
\* for it while the first waited in the queue, and for the first afterwards.
C33_Witness ==
    /\ Len(invoked) = 2
    /\ invoked[1].id = uniqid(2) /\ invoked[2].id = uniqid(1)
    /\ \E m \in published : m.id = uniqid(2)
    /\ wk[1].handling # {}

\* --------------------------------------------- claims: the same channels

\* C34: for a worker and the client of the same queue name and the same
\* configured prefix, the channel the worker is subscribed to is the channel
\* the client publishes its notifications on, and the channel a request
\* connection of the client is subscribed to is the channel the worker
\* publishes the response of that request to.
C34_SameChannels ==
    /\ \A w \in Workers : \A x \in subs :
          x[1] = WConn(w) => x[2] = requestChannel(QueueName, prefix)
    /\ \A r \in Reqs : \A x \in subs :
          x[1] = RConn(r) => x[2] = responseChannel(uniqid(r), Undefined)

\* ------------------------------------------------- claims: the round trip

\* The values that JSON can write: strings, finite numbers, booleans, null
\* and plain objects of these.
Serializable == {"0", "", "null", "false", "data", "{name:Error,message:data}"}

C36_DefaultsKept ==
    [][/\ opts'.applied # opts.applied =>
             /\ opts'.defaults = opts.defaults
             /\ \A k \in OptionKeys :
                   opts'.applied.returned[k] =
                       IF opts'.applied.given[k].has THEN opts'.applied.given[k]
                       ELSE opts.defaults[k]
       /\ opts'.client # opts.client \/ opts'.publisher # opts.publisher =>
             opts'.defaults = opts.defaults
       /\ opts'.defaults # opts.defaults =>
             /\ opts'.client = opts.client /\ opts'.publisher = opts.publisher
             /\ opts'.applied = opts.applied]_vars

\* A client and a publisher were constructed with the defaults as shipped;
\* setDefaults calls have since changed the prefix, the timeout and
\* minimumRecipients of the defaults, and apply({}) has returned the new ones.
C36_Witness ==
    /\ opts.client.made /\ opts.client.is = newClient(DefaultsInit)
    /\ opts.publisher.made /\ opts.publisher.is = newPublisher(DefaultsInit)
    /\ prefixOf(opts.defaults.redis) = "x:"
    /\ opts.defaults.timeout = Have(500) /\ opts.defaults.minimumRecipients = Have(2)
    /\ opts.applied.called /\ opts.applied.given = EmptyObject
    /\ opts.applied.returned = opts.defaults

\* ------------------------------------------------ claims: one shutdown

\* C37: within one cycle of listen() and stop() the worker runs _shutdown at
\* most once, however stop(), suspended in UNSUBSCRIBE, interleaves with the
\* completion of the request in flight.
C37_ShutsDownOnce ==
    \A w \in Workers : wk[w].shutdowns <= 1

\* --------------------------------------- claims: after the timeout

\* The call of request r has timed out and its item is in the queue.
Stale(r) == InQueue(r) /\ rq[r].state = "rejected" /\ rq[r].value = TimeoutError

\* C38: the item of a request that timed out before a worker claimed it is
\* removed from the queue only by a worker that claims it and invokes the
\* handler for it; a worker that is listening and not working while the item
\* is in the queue comes to claim it; and the response to a call that has
\* ended reaches no connection.
C38_StaleIsServed ==
    /\ [][\A r \in Reqs :
             Stale(r) /\ ~InQueue(r)' =>
                 \E w \in Workers :
                     invoked' = Append(invoked, [w |-> w, id |-> uniqid(r),
                                                data |-> rq[r].data])]_vars
    /\ \A r \in Reqs :
          (Stale(r) /\ wk[1].isListening /\ ~wk[1].isWorking) ~> (ClaimedBy(r) # {})
    /\ [](\A m \in published : ~m.pending => m.received = 0)

\* ------------------------------------------- claims: a stopped subscriber

\* C39: from the step in which the stop() of a subscriber resolves until its
\* next listen(), no step invokes its handler or hands it a message, and no
\* PUBLISH that takes effect counts its connection among the recipients.
C39_StoppedGetsNothing ==
    [][\A s \in SubIds :
          sb'[s].stop = "resolved" =>
              /\ sb'[s].handled = sb[s].handled
              /\ sb'[s].inbox = <<>>
              /\ <<SConn(s), SubChannel(s)>> \notin subs'
              /\ \A i \in Sent' :
                    i > Len(calls) \/ i \notin Sent => SConn(s) \notin calls'[i].recipients]_vars

\* The first subscriber has handled the first message and its stop() has
\* resolved; the second message was published afterwards on its channel and
\* publish() resolved without counting it: it has handled nothing more.
C39_Witness ==
    /\ sb[1].stop = "resolved" /\ Len(sb[1].handled) = 1
    /\ Len(calls) = 2 /\ Sent = {1, 2}
    /\ 1 \in calls[1].listening /\ SConn(1) \in calls[1].recipients
    /\ calls[2].settled /\ 1 \notin calls[2].listening
    /\ PubChannelName(calls[2].p) = SubChannelName(1)
    /\ SConn(1) \notin calls[2].recipients /\ calls[2].state = "resolved"

\* ------------------------------------------ claims: a listen() that failed

\* C40: a subscriber whose listen() was rejected because SUBSCRIBE failed is
\* not listening, and a listen() called on it afterwards is not rejected
\* with 'Subscriber already listening.'.
C40_FailedListenNotListening ==
    \A s \in SubIds :
        /\ sb[s].listen = "rejected" => ~sb[s].isListening
        /\ sb[s].listen = "rejected" => sb[s].lastListen # AlreadyListeningError

====
